---- MODULE Spec2Model ----
(***************************************************************************)
(* chan_downloader (src/src/lib.rs): thread URL parsing, media link        *)
(* extraction, and the fetch-and-save step.                                *)
(*                                                                         *)
(* Text is modelled as a sequence of one-character strings, so that        *)
(* str::split and the regular expression work on characters.               *)
(***************************************************************************)
EXTENDS Integers, Sequences, FiniteSets, TLC

VARIABLES
    url,            \* get_thread_infos: the argument `url`
    infos,          \* get_thread_infos: what the call produced
    page_content,   \* get_image_links: the argument `page_content`
    links,          \* get_image_links: what the call produced
    links_iter,     \* the CaptureMatches iterator: where its next search starts
    for_loop,       \* the caller's `for cap in links_iter.step_by(n)`
    caps,           \* the captures the loop body has seen, in order
    fs,             \* the files on disk, by path
    call,           \* the last save_image / get_page_content call: its
                    \* arguments, what the network and the disk did, the
                    \* files before it and its result
    requests,       \* the URLs of the requests sent, in order
    batch           \* the per-link download loop

locateVars == <<url, infos>>

extractVars == <<page_content, links, links_iter, for_loop, caps>>

saveVars == <<fs, call, requests, batch>>

vars == <<url, infos, page_content, links, links_iter, for_loop, caps,
          fs, call, requests, batch>>

NotCalled == [kind |-> "not_called"]

(***************************************************************************)
(* Bounds of the model.                                                    *)
(***************************************************************************)
MaxUrlLen == 7
MaxFragments == 4
MaxBodyLen == 2
MaxLinks == 3

(***************************************************************************)
(* Generic helpers on character sequences.                                 *)
(***************************************************************************)
SeqsUpTo(S, n) == UNION {[1..k -> S] : k \in 0..n}

RECURSIVE SplitFrom(_, _, _, _, _)
SplitFrom(s, sep, i, cur, acc) ==
    IF i > Len(s) THEN Append(acc, cur)
    ELSE IF s[i] = sep THEN SplitFrom(s, sep, i + 1, <<>>, Append(acc, cur))
    ELSE SplitFrom(s, sep, i + 1, Append(cur, s[i]), acc)

\* str::split(sep).collect::<Vec<&str>>(): one more piece than separators,
\* empty pieces kept (leading, trailing and between adjacent separators).
Split(s, sep) == SplitFrom(s, sep, 1, <<>>, <<>>)

(***************************************************************************)
(* get_thread_infos                                                        *)
(***************************************************************************)
ExampleUrl == <<"h","t","t","p","s",":","/","/","b","o","a","r","d","s",".","4","c","h","a","n",".","o","r","g","/","w","g","/","t","h","r","e","a","d","/","6","8","7","2","2","5","4">>
ExampleUrlAnchor == ExampleUrl \o <<"#","p","6","8","7","2","2","5","4">>
ExampleUrlShort == <<"h","t","t","p","s",":","/","/","b","o","a","r","d","s",".","4","c","h","a","n",".","o","r","g","/","w","g","/">>

UrlAlphabet == {"/", "#", "w", "6"}

Urls == SeqsUpTo(UrlAlphabet, MaxUrlLen) \cup {ExampleUrl, ExampleUrlAnchor, ExampleUrlShort}

\* Indexing a Vec out of bounds panics: the call unwinds and returns nothing.
IndexPanic(index, len) == [kind |-> "panic", index |-> index, len |-> len]

InfosReturned(board_name, thread_id) ==
    [kind |-> "returned", board_name |-> board_name, thread_id |-> thread_id]

\* The board taken one segment too early (url_vec[2]).
get_thread_infos_off_by_one(u) ==
    LET url_vec == Split(u, "/") IN
    IF Len(url_vec) < 4 THEN IndexPanic(3, Len(url_vec))
    ELSE IF Len(url_vec) < 6 THEN IndexPanic(5, Len(url_vec))
    ELSE LET thread_vec == Split(url_vec[6], "#")
         IN  InfosReturned(url_vec[3], thread_vec[1])

\* Missing segments read as empty (url_vec.get(3).unwrap_or("")).
get_thread_infos_defaulting(u) ==
    LET url_vec == Split(u, "/")
        board_name == IF Len(url_vec) < 4 THEN <<>> ELSE url_vec[4]
        thread_vec == IF Len(url_vec) < 6 THEN <<<<>>>> ELSE Split(url_vec[6], "#")
    IN  InfosReturned(board_name, thread_vec[1])

\* get_thread_infos(url). Vec indices are 0-based in the source, sequences
\* 1-based here: url_vec[3] is url_vec[4], url_vec[5] is url_vec[6] and
\* thread_vec[0] is thread_vec[1].
get_thread_infos(u) ==
    LET url_vec == Split(u, "/") IN
    IF Len(url_vec) < 4 THEN IndexPanic(3, Len(url_vec))
    ELSE IF Len(url_vec) < 6 THEN IndexPanic(5, Len(url_vec))
    ELSE LET thread_vec == Split(url_vec[6], "#")
         IN  InfosReturned(url_vec[4], thread_vec[1])

SaveIdle ==
    /\ fs = <<>>
    /\ call = [fn |-> "none"]
    /\ requests = <<>>
    /\ batch = [pc |-> "idle"]

ExtractIdle ==
    /\ page_content = <<>>
    /\ links = NotCalled
    /\ links_iter = 0
    /\ for_loop = [step |-> 0, first_take |-> FALSE, done |-> FALSE]
    /\ caps = <<>>

InitLocate ==
    /\ url \in Urls
    /\ infos = NotCalled
    /\ ExtractIdle
    /\ SaveIdle

GetThreadInfos ==
    /\ infos = NotCalled
    /\ infos' = get_thread_infos(url)
    /\ UNCHANGED url
    /\ UNCHANGED <<extractVars, saveVars>>

NextLocate == GetThreadInfos

SpecLocate == InitLocate /\ [][NextLocate]_vars

(***************************************************************************)
(* What the segments of a URL are, stated by position and not by scanning: *)
(* segment k (0-based) lies strictly between the k-th and the (k+1)-th     *)
(* '/' of the text, the 0-th being before the text and the last after it.  *)
(***************************************************************************)
Positions(s, c) == {i \in 1..Len(s) : s[i] = c}

NthPosition(s, c, n) ==
    IF n = 0 THEN 0
    ELSE IF n > Cardinality(Positions(s, c)) THEN Len(s) + 1
    ELSE CHOOSE p \in Positions(s, c) :
            Cardinality({q \in Positions(s, c) : q <= p}) = n

SegmentCount(s) == Cardinality(Positions(s, "/")) + 1

Segment(s, k) == SubSeq(s, NthPosition(s, "/", k) + 1, NthPosition(s, "/", k + 1) - 1)

BeforeAnchor(s) == SubSeq(s, 1, NthPosition(s, "#", 1) - 1)

\* C1: a URL of at least 6 '/'-segments gives segment 3 unchanged as the
\* board and segment 5 up to its first '#' as the thread id; the example URL
\* gives ("wg", "6872254").
C1_LocateSegments ==
    (infos # NotCalled) =>
        /\ (SegmentCount(url) >= 6) =>
              /\ infos.kind = "returned"
              /\ infos.board_name = Segment(url, 3)
              /\ infos.thread_id = BeforeAnchor(Segment(url, 5))
        /\ (url = ExampleUrl) =>
              infos = InfosReturned(<<"w","g">>, <<"6","8","7","2","2","5","4">>)

C1_Witness ==
    /\ infos # NotCalled
    /\ SegmentCount(url) >= 6
    /\ Positions(Segment(url, 5), "#") # {}
    /\ infos.kind = "returned"
    /\ infos.thread_id # <<>>
    /\ infos.board_name # <<>>

Digit == {"0","1","2","3","4","5","6","7","8","9"}

WordChar ==
    Digit \cup
    {"a","b","c","d","e","f","g","h","i","j","k","l","m","n","o","p","q","r",
     "s","t","u","v","w","x","y","z","A","B","C","D","E","F","G","H","I","J",
     "K","L","M","N","O","P","Q","R","S","T","U","V","W","X","Y","Z","_"}

Lit(t, i, lit) ==
    IF i = 0 THEN 0
    ELSE IF i + Len(lit) - 1 <= Len(t) /\ SubSeq(t, i, i + Len(lit) - 1) = lit
         THEN i + Len(lit)
         ELSE 0

RECURSIVE SkipClass(_, _, _)
SkipClass(t, i, class) ==
    IF i <= Len(t) /\ t[i] \in class THEN SkipClass(t, i + 1, class) ELSE i

Star(t, i, class) == IF i = 0 THEN 0 ELSE SkipClass(t, i, class)

Plus(t, i, class) ==
    IF i = 0 THEN 0
    ELSE LET j == SkipClass(t, i, class) IN IF j > i THEN j ELSE 0

Opt(t, i, lit) ==
    IF i = 0 THEN 0
    ELSE LET j == Lit(t, i, lit) IN IF j = 0 THEN i ELSE j

RECURSIVE Alt(_, _, _)
Alt(t, i, lits) ==
    IF i = 0 \/ lits = <<>> THEN 0
    ELSE LET j == Lit(t, i, Head(lits))
         IN  IF j # 0 THEN j ELSE Alt(t, i, Tail(lits))

Hosts == << <<"4","c","d","n">>, <<"4","c","h","a","n">> >>

Extensions == << <<"j","p","g">>, <<"p","n","g">>, <<"g","i","f">>, <<"w","e","b","m">> >>

\* A capture: group 1 (the URL, which is also the whole match) and group 2
\* (the file name), with the offsets of the match in the text.
NoCapture == [start |-> 0, end |-> 0, url |-> <<>>, filename |-> <<>>]

\* The match of RE that starts exactly at position i, if any.
RE(t, i) ==
    LET a == Lit(t, i, <<"/","/","i">>)
        b == Opt(t, a, <<"s">>)
        c == Star(t, b, Digit)
        d == Lit(t, c, <<".">>)
        e == Alt(t, d, Hosts)
        f == Lit(t, e, <<".","o","r","g","/">>)
        g == Plus(t, f, WordChar)
        h == Lit(t, g, <<"/">>)
        k == Plus(t, h, Digit)
        l == Lit(t, k, <<".">>)
        m == Alt(t, l, Extensions)
    IN  IF m = 0 THEN NoCapture
        ELSE [start |-> i, end |-> m,
              url |-> SubSeq(t, i, m - 1), filename |-> SubSeq(t, h, m - 1)]

\* The leftmost match starting at or after position i.
FindFrom(t, i) ==
    LET starts == {p \in i..Len(t) : RE(t, p).start # 0}
    IN  IF starts = {} THEN NoCapture
        ELSE RE(t, CHOOSE p \in starts : \A q \in starts : p <= q)

\* CaptureMatches::next: the next match, the search resuming where it ends.
IterNext(t, pos) ==
    LET m == FindFrom(t, pos)
    IN  [item |-> m, pos |-> IF m.start = 0 THEN Len(t) + 1 ELSE m.end]

\* Iterator::nth(n): n items are dropped and the next one is returned.
RECURSIVE IterNth(_, _, _)
IterNth(t, pos, n) ==
    LET r == IterNext(t, pos)
    IN  IF n = 0 \/ r.item.start = 0 THEN r ELSE IterNth(t, r.pos, n - 1)

\* Iterator::count over a fresh captures_iter.
RECURSIVE IterCount(_, _)
IterCount(t, pos) ==
    LET r == IterNext(t, pos)
    IN  IF r.item.start = 0 THEN 0 ELSE 1 + IterCount(t, r.pos)

LinksReturned(iter, number_of_links) ==
    [kind |-> "returned", links_iter |-> iter, number_of_links |-> number_of_links]

\* The count without the division by 2.
get_image_links_undivided(page) ==
    LinksReturned(1, IterCount(page, 1))

\* get_image_links(page_content): a fresh iterator over the page, and the
\* count of a second, independent scan, halved.
get_image_links(page) ==
    LET iter == 1
        number_of_links == IterCount(page, 1) \div 2
    IN  LinksReturned(iter, number_of_links)

\* No item is dropped between two visits.
StepByNext_no_skip(t, pos, loop) ==
    IterNext(t, pos)

\* StepBy::next, with StepBy holding step - 1: the first call takes the next
\* item, every later call drops step - 1 items and takes the one after.
StepByNext(t, pos, loop) ==
    IF loop.first_take THEN IterNext(t, pos) ELSE IterNth(t, pos, loop.step - 1)

(***************************************************************************)
(* Pages: up to MaxFragments pieces of markup, concatenated. FragAnchor is *)
(* the anchor of tests::it_gets_image_links; FragHost and FragTail make a  *)
(* media URL only when the second follows the first.                       *)
(***************************************************************************)
FragAnchor == <<" ","<","a"," ","h","r","e","f","=","\"","/","/","i",".","4","c","d","n",".","o","r","g","/","w","g","/","1","4","8","9","2","6","6","5","7","0","9","5","4",".","j","p","g","\""," ","t","a","r","g","e","t","=","\"","_","b","l","a","n","k","\"",">","s","t","i","c","k","y","o","p",".","j","p","g","<","/","a",">">>
FragWebm == <<"<","a"," ","h","r","e","f","=","\"","/","/","i","s","2",".","4","c","h","a","n",".","o","r","g","/","b","/","1","7",".","w","e","b","m","\"",">">>
FragHost == <<"/","/","i",".","4","c","d","n",".","o","r","g","/">>
FragTail == <<"g","/","7",".","g","i","f">>
FragOtherSite == <<"/","/","i",".","4","c","d","n",".","n","e","t","/","w","g","/","1",".","p","n","g">>

Fragments == {FragAnchor, FragWebm, FragHost, FragTail, FragOtherSite}

RECURSIVE Concat(_)
Concat(ss) == IF ss = <<>> THEN <<>> ELSE Head(ss) \o Concat(Tail(ss))

Pages == {Concat(frags) : frags \in SeqsUpTo(Fragments, MaxFragments)}

TestPage == FragAnchor \o FragAnchor

TestUrl == <<"/","/","i",".","4","c","d","n",".","o","r","g","/","w","g","/","1","4","8","9","2","6","6","5","7","0","9","5","4",".","j","p","g">>
TestFilename == <<"1","4","8","9","2","6","6","5","7","0","9","5","4",".","j","p","g">>

LocateIdle ==
    /\ url = <<>>
    /\ infos = NotCalled

InitExtract ==
    /\ page_content \in Pages
    /\ links = NotCalled
    /\ links_iter = 0
    /\ for_loop = [step |-> 0, first_take |-> FALSE, done |-> FALSE]
    /\ caps = <<>>
    /\ LocateIdle
    /\ SaveIdle

GetImageLinks ==
    /\ links = NotCalled
    /\ links' = get_image_links(page_content)
    /\ links_iter' = links'.links_iter
    /\ UNCHANGED <<page_content, for_loop, caps>>
    /\ UNCHANGED <<locateVars, saveVars>>

\* for cap in links_iter.step_by(step): step 1 visits every match.
ForStart ==
    /\ links # NotCalled
    /\ for_loop.step = 0
    /\ \E step \in {1, 2} :
          for_loop' = [step |-> step, first_take |-> TRUE, done |-> FALSE]
    /\ UNCHANGED <<page_content, links, links_iter, caps>>
    /\ UNCHANGED <<locateVars, saveVars>>

ForNext ==
    /\ for_loop.step # 0
    /\ ~for_loop.done
    /\ LET r == StepByNext(page_content, links_iter, for_loop)
       IN  /\ links_iter' = r.pos
           /\ IF r.item.start = 0
              THEN /\ for_loop' = [for_loop EXCEPT !.first_take = FALSE, !.done = TRUE]
                   /\ caps' = caps
              ELSE /\ for_loop' = [for_loop EXCEPT !.first_take = FALSE]
                   /\ caps' = Append(caps, [url |-> r.item.url, filename |-> r.item.filename])
    /\ UNCHANGED <<page_content, links>>
    /\ UNCHANGED <<locateVars, saveVars>>

NextExtract == GetImageLinks \/ ForStart \/ ForNext

SpecExtract == InitExtract /\ [][NextExtract]_vars

(***************************************************************************)
(* The media URLs of a page, stated by position: a match can start only at *)
(* "//", and no match holds "//" after its start, so two matches never     *)
(* overlap and the matches of the page are the positions where RE matches. *)
(***************************************************************************)
MatchStarts(t) == {i \in 1..Len(t) : RE(t, i).start # 0}

PageUrls(t) == {RE(t, i).url : i \in MatchStarts(t)}

Occurrences(t, u) == {i \in MatchStarts(t) : RE(t, i).url = u}

EveryUrlTwice(t) == \A u \in PageUrls(t) : Cardinality(Occurrences(t, u)) = 2

\* The two occurrences of every URL are consecutive matches.
TwinsAdjacent(t) ==
    \A u \in PageUrls(t) : \A i, j \in Occurrences(t, u) :
        ~ \E k \in MatchStarts(t) : i < k /\ k < j

VisitedAll == for_loop.step = 1 /\ for_loop.done

VisitedEverySecond == for_loop.step = 2 /\ for_loop.done

\* C3: the reported count is the number of matches the sequence yields
\* divided by 2; one media URL occurring exactly twice gives 2 matches and
\* count 1 (the test page with its url and filename); no match gives an
\* empty sequence and count 0, and a result all the same.
C3_CountIsHalfTheMatches ==
    VisitedAll =>
        /\ links.kind = "returned"
        /\ links.number_of_links = Len(caps) \div 2
        /\ Len(caps) = Cardinality(MatchStarts(page_content))
        /\ (Cardinality(MatchStarts(page_content)) = 2 /\ Cardinality(PageUrls(page_content)) = 1) =>
              (Len(caps) = 2 /\ links.number_of_links = 1)
        /\ (page_content = TestPage) =>
              caps = << [url |-> TestUrl, filename |-> TestFilename],
                        [url |-> TestUrl, filename |-> TestFilename] >>
        /\ (MatchStarts(page_content) = {}) =>
              (caps = <<>> /\ links.number_of_links = 0)

C3_Witness ==
    /\ VisitedAll
    /\ page_content = TestPage
    /\ Len(caps) = 2
    /\ links.number_of_links = 1

CapUrls == {caps[k].url : k \in 1..Len(caps)}

EachUrlVisitedOnce ==
    /\ CapUrls = PageUrls(page_content)
    /\ \A k, l \in 1..Len(caps) : caps[k].url = caps[l].url => k = l
    /\ Len(caps) = links.number_of_links

\* C9 as stated: on a page where every media URL occurs exactly twice,
\* visiting matches 0, 2, 4, ... yields each distinct URL exactly once, as
\* many as the reported count.
C9_EverySecondIsEachUrlOnce ==
    (VisitedEverySecond /\ EveryUrlTwice(page_content)) => EachUrlVisitedOnce

\* C9 amended: on a page where every media URL occurs exactly twice and its
\* two occurrences are consecutive matches, visiting matches 0, 2, 4, ...
\* yields each distinct URL exactly once, as many as the reported count.
C9_EverySecondOfAdjacentTwins ==
    (VisitedEverySecond /\ EveryUrlTwice(page_content) /\ TwinsAdjacent(page_content))
        => EachUrlVisitedOnce

C9_Witness ==
    /\ VisitedEverySecond
    /\ EveryUrlTwice(page_content)
    /\ TwinsAdjacent(page_content)
    /\ Cardinality(PageUrls(page_content)) = 2
    /\ Len(caps) = 2

(***************************************************************************)
(* save_image and get_page_content. The network and the disk are the       *)
(* environment: what `send`, `bytes`, `text` and `copy` do is an input of  *)
(* each call. A file is its bytes; a path is a directory and a name, and   *)
(* only the directories of WritableDirs exist and can be written to.       *)
(***************************************************************************)
Bytes == {0, 255}

Bodies == SeqsUpTo(Bytes, MaxBodyLen)

NoFile == [exists |-> FALSE, bytes |-> <<>>]

FileOf(bytes) == [exists |-> TRUE, bytes |-> bytes]

WritableDirs == {"out"}

Path(dir, name) == [dir |-> dir, name |-> name]

Dirs == {"out", "missing"}

\* The file <name>.jpg in a directory; <name> is the run of digits the
\* pattern takes as the file name.
Paths == {Path(dir, name) : dir \in Dirs, name \in 1..2}

\* https://i.4cdn.org/wg/<name>.jpg
MediaUrl(name) == [board |-> "wg", name |-> name]

MediaUrls == {MediaUrl(name) : name \in 1..2}

\* https://boards.4chan.org/wg/thread/6872254
ThreadUrls == {[board |-> "wg", thread |-> "6872254"]}

DirWritable(path) == path.dir \in WritableDirs

Statuses == {200, 404, 503}

\* StatusCode::is_success: 200..=299.
is_success(status) == 200 <= status /\ status <= 299

\* What the network does with one request: `send` fails, or it returns a
\* response with a status and a body, whose read (`bytes`, `text`) may fail.
SendFailed == [sent |-> FALSE, status |-> 0, body_read |-> FALSE, body |-> <<>>]

Response(status, body_read, body) ==
    [sent |-> TRUE, status |-> status, body_read |-> body_read, body |-> body]

NetOutcomes ==
    {SendFailed}
    \cup {Response(s, TRUE, b) : s \in Statuses, b \in Bodies}
    \cup {Response(s, FALSE, <<>>) : s \in Statuses}

\* What the disk does with one io::copy of `body`: all of it is written, or
\* a write fails with only the first `written` bytes in the file.
CopyOutcomes(body) ==
    {[copy_ok |-> TRUE, written |-> Len(body)]}
    \cup {[copy_ok |-> FALSE, written |-> k] : k \in 0..(Len(body) - 1)}

Ok(value) == [kind |-> "ok", value |-> value]

Err(error) == [kind |-> "err", error |-> error]

\* Result::unwrap on an Err: the thread unwinds, the call returns nothing.
UnwrapPanic(at) == [kind |-> "panic", at |-> at]

Ran(result, files, sends) == [result |-> result, fs |-> files, sends |-> sends]

\* File::create: the file is created, or truncated when it exists.
Created(files, path) == [files EXCEPT ![path] = FileOf(<<>>)]

\* The file is opened before the status is looked at.
save_image_create_before_status(u, path, net, disk, files) ==
    IF ~net.sent THEN Ran(Err("reqwest::Error"), files, <<u>>)
    ELSE IF ~DirWritable(path) THEN Ran(UnwrapPanic("File::create"), files, <<u>>)
    ELSE IF ~is_success(net.status) THEN Ran(Ok(path), Created(files, path), <<u>>)
    ELSE IF ~net.body_read
         THEN Ran(UnwrapPanic("Response::bytes"), Created(files, path), <<u>>)
    ELSE IF ~disk.copy_ok
         THEN Ran(UnwrapPanic("io::copy"),
                  [files EXCEPT ![path] = FileOf(SubSeq(net.body, 1, disk.written))], <<u>>)
    ELSE Ran(Ok(path), [files EXCEPT ![path] = FileOf(net.body)], <<u>>)

\* The file is opened before the request is sent.
save_image_create_before_send(u, path, net, disk, files) ==
    IF ~DirWritable(path) THEN Ran(UnwrapPanic("File::create"), files, <<>>)
    ELSE IF ~net.sent THEN Ran(Err("reqwest::Error"), Created(files, path), <<u>>)
    ELSE IF ~is_success(net.status) THEN Ran(Ok(path), Created(files, path), <<u>>)
    ELSE IF ~net.body_read
         THEN Ran(UnwrapPanic("Response::bytes"), Created(files, path), <<u>>)
    ELSE IF ~disk.copy_ok
         THEN Ran(UnwrapPanic("io::copy"),
                  [files EXCEPT ![path] = FileOf(SubSeq(net.body, 1, disk.written))], <<u>>)
    ELSE Ran(Ok(path), [files EXCEPT ![path] = FileOf(net.body)], <<u>>)

\* The file is opened for appending, not truncated.
save_image_append(u, path, net, disk, files) ==
    IF ~net.sent THEN Ran(Err("reqwest::Error"), files, <<u>>)
    ELSE IF ~is_success(net.status) THEN Ran(Ok(path), files, <<u>>)
    ELSE IF ~DirWritable(path) THEN Ran(UnwrapPanic("File::create"), files, <<u>>)
    ELSE IF ~net.body_read
         THEN Ran(UnwrapPanic("Response::bytes"),
                  [files EXCEPT ![path] = FileOf(files[path].bytes)], <<u>>)
    ELSE IF ~disk.copy_ok
         THEN Ran(UnwrapPanic("io::copy"),
                  [files EXCEPT ![path] =
                      FileOf(files[path].bytes \o SubSeq(net.body, 1, disk.written))], <<u>>)
    ELSE Ran(Ok(path), [files EXCEPT ![path] = FileOf(files[path].bytes \o net.body)], <<u>>)

\* save_image(url, path, client), in the order of the source: send (`?`
\* returns its error), the status test, File::create(..).unwrap(),
\* response.bytes().unwrap(), copy(..).unwrap(), Ok(path). `sends` is the
\* requests the call has sent.
save_image(u, path, net, disk, files) ==
    IF ~net.sent THEN Ran(Err("reqwest::Error"), files, <<u>>)
    ELSE IF ~is_success(net.status) THEN Ran(Ok(path), files, <<u>>)
    ELSE IF ~DirWritable(path) THEN Ran(UnwrapPanic("File::create"), files, <<u>>)
    ELSE IF ~net.body_read
         THEN Ran(UnwrapPanic("Response::bytes"), Created(files, path), <<u>>)
    ELSE IF ~disk.copy_ok
         THEN Ran(UnwrapPanic("io::copy"),
                  [files EXCEPT ![path] = FileOf(SubSeq(net.body, 1, disk.written))], <<u>>)
    ELSE Ran(Ok(path), [files EXCEPT ![path] = FileOf(net.body)], <<u>>)

\* The String that Response::text makes of the body it has read.
TextOf(body) == [decoded |-> body]

\* get_page_content(url, client): send and text, each with `?`; the status
\* is not looked at.
get_page_content(u, net, files) ==
    IF ~net.sent THEN Ran(Err("reqwest::Error"), files, <<u>>)
    ELSE IF ~net.body_read THEN Ran(Err("reqwest::Error"), files, <<u>>)
    ELSE Ran(Ok(TextOf(net.body)), files, <<u>>)

NoCall == [fn |-> "none"]

BatchIdle == batch = [pc |-> "idle"]

\* Files can exist only where the directory does.
InitFiles ==
    {f \in [Paths -> {NoFile} \cup {FileOf(b) : b \in Bodies}] :
        \A p \in Paths : ~DirWritable(p) => f[p] = NoFile}

InitSave ==
    /\ fs \in InitFiles
    /\ call = NoCall
    /\ requests = <<>>
    /\ BatchIdle
    /\ LocateIdle
    /\ ExtractIdle

SaveImage ==
    /\ call = NoCall
    /\ \E u \in MediaUrls, path \in Paths, net \in NetOutcomes :
       \E disk \in CopyOutcomes(net.body) :
          LET r == save_image(u, path, net, disk, fs)
          IN  /\ fs' = r.fs
              /\ requests' = requests \o r.sends
              /\ call' = [fn |-> "save_image", url |-> u, path |-> path, net |-> net,
                          disk |-> disk, fs_before |-> fs, result |-> r.result]
    /\ UNCHANGED batch
    /\ UNCHANGED <<locateVars, extractVars>>

GetPageContent ==
    /\ call = NoCall
    /\ \E u \in ThreadUrls, net \in NetOutcomes :
          LET r == get_page_content(u, net, fs)
          IN  /\ fs' = r.fs
              /\ requests' = requests \o r.sends
              /\ call' = [fn |-> "get_page_content", url |-> u, path |-> Path("", 0),
                          net |-> net, disk |-> [copy_ok |-> TRUE, written |-> 0],
                          fs_before |-> fs, result |-> r.result]
    /\ UNCHANGED batch
    /\ UNCHANGED <<locateVars, extractVars>>

NextSave == SaveImage \/ GetPageContent

SpecSave == InitSave /\ [][NextSave]_vars

Saved == call.fn = "save_image"

NonSuccess == Saved /\ call.net.sent /\ ~is_success(call.net.status)

FetchSucceeded ==
    Saved /\ call.net.sent /\ is_success(call.net.status) /\ call.net.body_read

DestinationWritable == DirWritable(call.path) /\ call.disk.copy_ok

\* C4: a non-success status on a media fetch ends save_image in an
\* HttpStatusError failure for that URL, not in a success result.
C4_NonSuccessIsAnError ==
    NonSuccess =>
        (call.result.kind = "err" /\ call.result.error = "HttpStatusError")

\* C5: a non-success status produces no local data: no file is created at
\* the destination and a file that is there keeps its content.
C5_NonSuccessWritesNothing ==
    NonSuccess => (fs = call.fs_before)

C5_Witness ==
    /\ NonSuccess
    /\ DirWritable(call.path)
    /\ call.net.body_read
    /\ call.net.body # <<>>
    /\ call.fs_before[call.path] = FileOf(<<255>>)
    /\ fs[call.path] = FileOf(<<255>>)

\* C7: when the fetch succeeds and the file cannot be created or written,
\* save_image returns an IoError as a failure value to its caller.
C7_IoErrorReturned ==
    (FetchSucceeded /\ ~DestinationWritable) =>
        (call.result.kind = "err" /\ call.result.error = "IoError")

\* C8: a success status and a writable destination leave at the requested
\* path a file whose content is the response body exactly, whatever it held
\* before, and the call returns that path.
C8_FileIsTheBody ==
    (FetchSucceeded /\ DestinationWritable) =>
        /\ fs[call.path] = FileOf(call.net.body)
        /\ call.result = Ok(call.path)

C8_Witness ==
    /\ FetchSucceeded
    /\ DestinationWritable
    /\ call.fs_before[call.path] = FileOf(<<0, 255>>)
    /\ call.net.body = <<255>>
    /\ fs[call.path] = FileOf(<<255>>)
    /\ call.result = Ok(call.path)

BatchPaths == {Path(dir, name) : dir \in Dirs, name \in 1..MaxLinks}

BatchNets ==
    {SendFailed, Response(404, TRUE, <<0>>), Response(200, FALSE, <<>>)}
    \cup {Response(200, TRUE, b) : b \in {<<0>>, <<255, 0>>}}

Outcome(u, path, result) ==
    [url |-> u, destinationPath |-> path, failed |-> (result.kind # "ok")]

InitBatch ==
    /\ fs = [p \in BatchPaths |-> NoFile]
    /\ call = NoCall
    /\ requests = <<>>
    /\ \E dir \in Dirs, n \in 1..MaxLinks :
       \E server \in [1..n -> BatchNets] :
          batch = [pc |-> "running", dir |-> dir, n |-> n, server |-> server,
                   i |-> 1, outcomes |-> <<>>]
    /\ LocateIdle
    /\ ExtractIdle

BatchStep ==
    /\ batch.pc = "running"
    /\ batch.i <= batch.n
    /\ LET u == MediaUrl(batch.i)
           path == Path(batch.dir, batch.i)
           net == batch.server[batch.i]
           disk == [copy_ok |-> TRUE, written |-> Len(net.body)]
           r == save_image(u, path, net, disk, fs)
       IN  /\ fs' = r.fs
           /\ requests' = requests \o r.sends
           /\ IF r.result.kind = "panic"
              THEN batch' = [batch EXCEPT !.pc = "panicked"]
              ELSE batch' = [batch EXCEPT !.i = @ + 1,
                                !.outcomes = Append(@, Outcome(u, path, r.result))]
    /\ UNCHANGED call
    /\ UNCHANGED <<locateVars, extractVars>>

BatchReturn ==
    /\ batch.pc = "running"
    /\ batch.i > batch.n
    /\ batch' = [batch EXCEPT !.pc = "done"]
    /\ UNCHANGED <<fs, call, requests>>
    /\ UNCHANGED <<locateVars, extractVars>>

NextBatch == BatchStep \/ BatchReturn

SpecBatch == InitBatch /\ [][NextBatch]_vars

BatchEnded == batch.pc \in {"done", "panicked"}

\* Exactly link K is answered with a non-success status; every other link
\* is answered with a success status and a body, into a writable directory.
OnlyLinkFails(K) ==
    /\ K \in 1..batch.n
    /\ batch.dir \in WritableDirs
    /\ \A k \in 1..batch.n :
          /\ batch.server[k].sent
          /\ batch.server[k].body_read
          /\ is_success(batch.server[k].status) <=> (k # K)

\* C6: in a batch of N links where exactly link K gets a non-success
\* status, all N are attempted, N outcomes come back in link order, the
\* outcome of K alone is marked failed, and every other link's file holds
\* its response body.
C6_OnlyTheFailedLinkFails ==
    \A K \in 1..MaxLinks :
        (BatchEnded /\ OnlyLinkFails(K)) =>
            /\ batch.pc = "done"
            /\ Len(requests) = batch.n
            /\ Len(batch.outcomes) = batch.n
            /\ \A k \in 1..batch.n :
                  /\ batch.outcomes[k].url = MediaUrl(k)
                  /\ batch.outcomes[k].failed <=> (k = K)
                  /\ (k # K) => fs[Path(batch.dir, k)] = FileOf(batch.server[k].body)

====
